---- MODULE Spec2Model ----
(***************************************************************************)
(* LocaLoop: the nearby-places discovery workflow of the map screen        *)
(* (app/(tabs)/maps.tsx, MapsScreen) and of the dashboard screen           *)
(* (app/(tabs)/profile.tsx, DashboardScreen), the sign-in and sign-up     *)
(* screens (app/(auth)/sign-in.tsx, SignInScreen; SignUpScreen), and the   *)
(* profile screen (app/(tabs)/profile.tsx, ProfileScreen).                 *)
(*                                                                         *)
(* A screen is a React function component.  Its state is the set of        *)
(* useState cells; every handler and every continuation of an async        *)
(* function (the code after an await) runs to completion as one step, the  *)
(* state updates it makes are committed together, and a handler reads the  *)
(* values of the render that created it (its closure), never the values it *)
(* has just set.  An async function that is waiting at an await is a       *)
(* record holding its position and the values its closure captured.        *)
(* A state update that stores the value the cell already holds renders     *)
(* nothing; one that stores a new object or array always renders.          *)
(***************************************************************************)
EXTENDS Integers, Sequences, FiniteSets, Bags, TLC

(***************************************************************************)
(* Bounds of the model                                                     *)
(***************************************************************************)
\* number of events (user actions and answers of the services) in one run of
\* the map or the dashboard screen
MaxSteps == 6
\* number of events in one run that observes the dashboard screen alone
MaxDashSteps == 7
\* number of events in one run of the sign-in or the sign-up screen
MaxAuthSteps == 8
\* number of events in one run of the profile screen
MaxProfileSteps == 7
\* length of the longest provider response
MaxResults == 21
\* number of applications of the text filter in one run
MaxFilterRuns == 2

(***************************************************************************)
(* Strings are sequences of characters                                     *)
(***************************************************************************)
UpperToLower ==
  [c \in {"A", "B", "C", "D", "E", "F", "J", "M", "S", "É"} |->
     CASE c = "A" -> "a" [] c = "B" -> "b" [] c = "C" -> "c" [] c = "D" -> "d"
       [] c = "E" -> "e" [] c = "F" -> "f" [] c = "J" -> "j" [] c = "M" -> "m"
       [] c = "S" -> "s" [] c = "É" -> "é"]

\* String.prototype.toLowerCase
toLowerCase(s) ==
  [i \in 1..Len(s) |-> IF s[i] \in DOMAIN UpperToLower THEN UpperToLower[s[i]] ELSE s[i]]

\* String.prototype.includes
includes(s, sub) ==
  \E i \in 0..(Len(s) - Len(sub)) : SubSeq(s, i + 1, i + Len(sub)) = sub

RECURSIVE trimStart(_)
trimStart(s) == IF s # <<>> /\ Head(s) = " " THEN trimStart(Tail(s)) ELSE s

RECURSIVE trimEnd(_)
trimEnd(s) ==
  IF s # <<>> /\ s[Len(s)] = " " THEN trimEnd(SubSeq(s, 1, Len(s) - 1)) ELSE s

\* String.prototype.trim
trim(s) == trimEnd(trimStart(s))

\* slice without its end index: the whole array
sliceWhole(a, n) == a

\* Array.prototype.slice(0, n)
slice(a, n) == SubSeq(a, 1, IF Len(a) < n THEN Len(a) ELSE n)

\* the predicate comparing the texts as they are
matchesCaseSensitive(place, searchQuery) ==
  \/ includes(place.name, searchQuery)
  \/ includes(place.vicinity, searchQuery)

\* the predicate of the dashboard's text filter
matches(place, searchQuery) ==
  \/ includes(toLowerCase(place.name), toLowerCase(searchQuery))
  \/ includes(toLowerCase(place.vicinity), toLowerCase(searchQuery))

RECURSIVE filterPlaces(_, _)
\* filteredPlaces.filter(place => ...)
filterPlaces(a, searchQuery) ==
  IF a = <<>> THEN <<>>
  ELSE IF matches(Head(a), searchQuery)
       THEN <<Head(a)>> \o filterPlaces(Tail(a), searchQuery)
       ELSE filterPlaces(Tail(a), searchQuery)

\* what searchNearbyPlaces makes of data.results before it truncates
filteredPlaces(results, searchQuery) ==
  IF trim(searchQuery) # <<>> THEN filterPlaces(results, searchQuery) ELSE results

(***************************************************************************)
(* The external services: positions the device reports and responses of    *)
(* the places provider                                                     *)
(***************************************************************************)
Positions == {[latitude |-> 1, longitude |-> 2], [latitude |-> 3, longitude |-> 4]}

JoesDiner ==
  [place_id |-> 1,
   name     |-> <<"J","o","e","'","s"," ","D","i","n","e","r">>,
   vicinity |-> <<"1"," ","M","a","i","n"," ","S","t">>]

SunriseCafe ==
  [place_id |-> 2,
   name     |-> <<"S","u","n","r","i","s","e"," ","C","a","f","é">>,
   vicinity |-> <<"2"," ","M","a","i","n"," ","S","t">>]

BurgerShack ==
  [place_id |-> 3,
   name     |-> <<"B","u","r","g","e","r"," ","S","h","a","c","k">>,
   vicinity |-> <<"3"," ","M","a","i","n"," ","S","t">>]

\* a response of n records, every fourth one a café
ManyPlaces(n) ==
  [i \in 1..n |->
     [place_id |-> 100 + i,
      name     |-> IF i % 4 = 0 THEN <<"C","a","f","é">> ELSE <<"D","i","n","e","r">>,
      vicinity |-> <<"M","a","i","n"," ","S","t">>]]

ResultLists == {<<JoesDiner>>, <<SunriseCafe, BurgerShack>>, ManyPlaces(MaxResults)}

\* what `await fetch(url)` followed by `await response.json()` can produce
Responses ==
  [status : {"OK"}, results : ResultLists]
    \cup {[status |-> "ZERO_RESULTS", results |-> <<>>],
          [status |-> "NETWORK_ERROR", results |-> <<>>]}

(***************************************************************************)
(* State                                                                   *)
(***************************************************************************)
VARIABLES
  screen,        \* the screen this run observes: "map" or "dash"
  map,           \* MapsScreen's useState cells
  mapEffects,    \* bag of executions of MapsScreen's effect waiting at an await
  mapRecenters,  \* bag of centerOnUserLocation calls waiting at their await
  mapFetches,    \* fetchNearbyPlaces calls waiting for the provider
  dash,          \* DashboardScreen's useState cells
  dashLocating,  \* bag of getCurrentLocation calls waiting at an await
  dashFetches,   \* searchNearbyPlaces calls waiting for the provider
  nextId,        \* sequence number of the next places request
  okIds,         \* sequence numbers of the requests answered with status OK
  alerts,        \* Alert.alert dialogs on display, oldest first
  event,         \* the event the last step handled
  steps,         \* number of events handled so far
  history,       \* what has happened so far: a permission request was granted,
                 \* the type of the request whose response places shows, and
                 \* whether Clear was pressed and no query was triggered since
  filterRuns,    \* applications of the text filter: input, text and output
  signIn,        \* SignInScreen's useState cells
  signUp,        \* SignUpScreen's useState cells
  clerk,         \* the identity provider's SDK: isLoaded and the active session
  route,         \* the route the router shows
  authCalls,     \* onSignInPress, onSignUpPress, onVerifyPress calls at an await
  profile,       \* ProfileScreen's useState cell
  profileCalls   \* bag of signOut() and user.delete() calls waiting at their await

mapVars == <<map, mapEffects, mapRecenters, mapFetches>>
dashVars == <<dash, dashLocating, dashFetches>>
vars == <<screen, map, mapEffects, mapRecenters, mapFetches,
          dash, dashLocating, dashFetches, nextId, okIds, alerts, event, steps,
          history, filterRuns, signIn, signUp, clerk, route, authCalls,
          profile, profileCalls>>
authVars == <<signIn, signUp, clerk, route, authCalls>>
profileVars == <<profile, profileCalls>>

\* the value null of a useState cell that holds an object
Null == [null |-> TRUE]
\* the value null of a useState cell that holds a string
NoMsg == <<>>

\* radius of every places request, in meters
Radius == 5000
\* latitudeDelta and longitudeDelta of the map region, in hundredths of a degree
RegionDelta == 5
\* the map keeps the first MapLimit places of a response
MapLimit == 20
\* the dashboard keeps the first DashLimit places of a response
DashLimit == 15

MapTypes == {"restaurant", "cafe"}

DeniedMsg == <<"Permission", "to", "access", "location", "was", "denied">>
FailedMsg == <<"Failed", "to", "get", "location">>

Event(op, arg) == [op |-> op, arg |-> arg, results |-> <<>>]

\* the event of a provider response: its status and the records it carried
ResponseEvent(resp) == [op |-> "response", arg |-> resp.status, results |-> resp.results]

\* Alert.alert(title, message): one more dialog on display
Alert(title, message) == Append(alerts, [title |-> title, message |-> message])

\* an Alert dialog is modal: no control of the screen can be touched under it
CanTouch == alerts = <<>>

(***************************************************************************)
(* MapsScreen                                                              *)
(***************************************************************************)
MapInit ==
  [location |-> Null, loading |-> TRUE, errorMsg |-> NoMsg, places |-> <<>>,
   loadingPlaces |-> FALSE, selectedType |-> "restaurant"]

\* which of its three trees MapsScreen renders
MapsScreenView ==
  IF map.loading THEN "loading"
  ELSE IF map.errorMsg # NoMsg \/ map.location = Null THEN "error"
  ELSE "map"

\* one execution of the effect, started after a render that showed selectedType:
\* the first render (mount), the render a press on "Try Again" caused (retry),
\* or any other render
Effect(type, mount) ==
  [pc |-> "permission", selectedType |-> type, mount |-> mount, retry |-> FALSE]

LocationCoords(pos) ==
  [latitude |-> pos.latitude, longitude |-> pos.longitude,
   latitudeDelta |-> RegionDelta, longitudeDelta |-> RegionDelta]

\* the request fetchNearbyPlaces(lat, lng, type) sends
MapRequest(lat, lng, type, trigger) ==
  [id |-> nextId, location |-> <<lat, lng>>, radius |-> Radius, type |-> <<type>>,
   trigger |-> trigger]

\* The state updates of one step are committed; when a cell changed the
\* component renders again, and the effect, which has no dependency list,
\* runs again after that render.
MapCommit(m, rendered, effects) ==
  /\ map' = m
  /\ mapEffects' = IF rendered THEN effects (+) SetToBag({Effect(m.selectedType, FALSE)})
                   ELSE effects

\* the failure path without setLoading(false)
MapLocationFailedStillLoading(e, msg) ==
  /\ MapCommit([map EXCEPT !.errorMsg = msg], map.errorMsg # msg,
               mapEffects (-) SetToBag({e}))
  /\ UNCHANGED <<mapRecenters, mapFetches, nextId, alerts>>

\* the catch block of the effect
MapLocationFailed(e, msg) ==
  /\ MapCommit([map EXCEPT !.errorMsg = msg, !.loading = FALSE],
               map.errorMsg # msg \/ map.loading,
               mapEffects (-) SetToBag({e}))
  /\ UNCHANGED <<mapRecenters, mapFetches, nextId, alerts>>

\* the effect without its test of the permission status
MapPermissionUnchecked(e, status) ==
  /\ screen = "map"
  /\ BagIn(e, mapEffects) /\ e.pc = "permission"
  /\ event' = Event("permission", status)
  /\ mapEffects' = (mapEffects (-) SetToBag({e}))
                     (+) SetToBag({[e EXCEPT !.pc = "position"]})
  /\ UNCHANGED <<map, mapRecenters, mapFetches, nextId, alerts>>
  /\ UNCHANGED <<screen, dashVars, okIds>>

\* requestForegroundPermissionsAsync answers an execution of the effect
MapPermission(e, status) ==
  /\ screen = "map"
  /\ BagIn(e, mapEffects) /\ e.pc = "permission"
  /\ event' = Event("permission", status)
  /\ CASE status = "granted" ->
            /\ mapEffects' = (mapEffects (-) SetToBag({e}))
                               (+) SetToBag({[e EXCEPT !.pc = "position"]})
            /\ UNCHANGED <<map, mapRecenters, mapFetches, nextId, alerts>>
       [] status = "denied" -> MapLocationFailed(e, DeniedMsg)
       [] status = "error" -> MapLocationFailed(e, FailedMsg)
  /\ UNCHANGED <<screen, dashVars, okIds>>

\* the effect without its call of fetchNearbyPlaces
MapPositionNoFetch(e, pos) ==
  /\ screen = "map"
  /\ BagIn(e, mapEffects) /\ e.pc = "position"
  /\ event' = Event("position", "ok")
  /\ MapCommit([map EXCEPT !.location = LocationCoords(pos), !.loading = FALSE],
               TRUE, mapEffects (-) SetToBag({e}))
  /\ UNCHANGED <<mapFetches, nextId, mapRecenters, alerts, screen, dashVars, okIds>>

\* getCurrentPositionAsync answers an execution of the effect with a position
MapPosition(e, pos) ==
  /\ screen = "map"
  /\ BagIn(e, mapEffects) /\ e.pc = "position"
  /\ event' = Event("position", "ok")
  /\ MapCommit([map EXCEPT !.location = LocationCoords(pos), !.loading = FALSE,
                           !.loadingPlaces = TRUE],
               TRUE, mapEffects (-) SetToBag({e}))
  /\ mapFetches' = mapFetches \cup
                     {MapRequest(pos.latitude, pos.longitude, e.selectedType, "effect")}
  /\ nextId' = nextId + 1
  /\ UNCHANGED <<mapRecenters, alerts, screen, dashVars, okIds>>

\* getCurrentPositionAsync throws in an execution of the effect
MapPositionError(e) ==
  /\ screen = "map"
  /\ BagIn(e, mapEffects) /\ e.pc = "position"
  /\ event' = Event("position", "error")
  /\ MapLocationFailed(e, FailedMsg)
  /\ UNCHANGED <<screen, dashVars, okIds>>

\* a response added to the places already shown
MapFetchResponseMerge(r, resp) ==
  /\ screen = "map"
  /\ r \in mapFetches
  /\ event' = ResponseEvent(resp)
  /\ okIds' = IF resp.status = "OK" THEN okIds \cup {r.id} ELSE okIds
  /\ mapFetches' = mapFetches \ {r}
  /\ IF resp.status = "OK"
     THEN /\ MapCommit([map EXCEPT !.places = slice(map.places \o resp.results, MapLimit),
                                   !.loadingPlaces = FALSE],
                       TRUE, mapEffects)
          /\ UNCHANGED alerts
     ELSE /\ alerts' = IF resp.status = "NETWORK_ERROR"
                       THEN Alert("Error", "Failed to fetch nearby places")
                       ELSE Alert("Error",
                              "Failed to fetch nearby places. Please check your API key.")
          /\ MapCommit([map EXCEPT !.loadingPlaces = FALSE], map.loadingPlaces, mapEffects)
  /\ UNCHANGED <<mapRecenters, nextId, screen, dashVars>>

\* the provider answers a fetchNearbyPlaces call
MapFetchResponse(r, resp) ==
  /\ screen = "map"
  /\ r \in mapFetches
  /\ event' = ResponseEvent(resp)
  /\ okIds' = IF resp.status = "OK" THEN okIds \cup {r.id} ELSE okIds
  /\ mapFetches' = mapFetches \ {r}
  /\ IF resp.status = "OK"
     THEN /\ MapCommit([map EXCEPT !.places = slice(resp.results, MapLimit),
                                   !.loadingPlaces = FALSE],
                       TRUE, mapEffects)
          /\ UNCHANGED alerts
     ELSE /\ alerts' = IF resp.status = "NETWORK_ERROR"
                       THEN Alert("Error", "Failed to fetch nearby places")
                       ELSE Alert("Error",
                              "Failed to fetch nearby places. Please check your API key.")
          /\ MapCommit([map EXCEPT !.loadingPlaces = FALSE], map.loadingPlaces, mapEffects)
  /\ UNCHANGED <<mapRecenters, nextId, screen, dashVars>>

\* a press on one of the two filter buttons
handleTypeChange(type) ==
  /\ screen = "map" /\ MapsScreenView = "map" /\ CanTouch
  /\ event' = Event("handleTypeChange", type)
  /\ IF map.location # Null
     THEN /\ MapCommit([map EXCEPT !.selectedType = type, !.loadingPlaces = TRUE],
                       map.selectedType # type \/ ~map.loadingPlaces, mapEffects)
          /\ mapFetches' = mapFetches \cup
               {MapRequest(map.location.latitude, map.location.longitude, type,
                           "handleTypeChange")}
          /\ nextId' = nextId + 1
     ELSE /\ MapCommit([map EXCEPT !.selectedType = type], map.selectedType # type,
                       mapEffects)
          /\ UNCHANGED <<mapFetches, nextId>>
  /\ UNCHANGED <<mapRecenters, alerts, screen, dashVars, okIds>>

\* a press on the recenter button: centerOnUserLocation up to its await
centerOnUserLocation ==
  /\ screen = "map" /\ MapsScreenView = "map" /\ CanTouch
  /\ event' = Event("centerOnUserLocation", "")
  /\ mapRecenters' = mapRecenters (+) SetToBag({[selectedType |-> map.selectedType]})
  /\ UNCHANGED <<map, mapEffects, mapFetches, nextId, alerts, screen, dashVars, okIds>>

\* centerOnUserLocation querying around the location of the last render
MapRecenterPositionOldCenter(c, pos) ==
  /\ screen = "map"
  /\ BagIn(c, mapRecenters)
  /\ event' = Event("recenterPosition", "ok")
  /\ mapRecenters' = mapRecenters (-) SetToBag({c})
  /\ MapCommit([map EXCEPT !.location = LocationCoords(pos), !.loadingPlaces = TRUE],
               TRUE, mapEffects)
  /\ mapFetches' = mapFetches \cup
       {MapRequest(map.location.latitude, map.location.longitude, c.selectedType,
                   "centerOnUserLocation")}
  /\ nextId' = nextId + 1
  /\ UNCHANGED <<alerts, screen, dashVars, okIds>>

\* getCurrentPositionAsync answers a centerOnUserLocation call with a position
MapRecenterPosition(c, pos) ==
  /\ screen = "map"
  /\ BagIn(c, mapRecenters)
  /\ event' = Event("recenterPosition", "ok")
  /\ mapRecenters' = mapRecenters (-) SetToBag({c})
  /\ MapCommit([map EXCEPT !.location = LocationCoords(pos), !.loadingPlaces = TRUE],
               TRUE, mapEffects)
  /\ mapFetches' = mapFetches \cup
       {MapRequest(pos.latitude, pos.longitude, c.selectedType, "centerOnUserLocation")}
  /\ nextId' = nextId + 1
  /\ UNCHANGED <<alerts, screen, dashVars, okIds>>

\* getCurrentPositionAsync throws in a centerOnUserLocation call
MapRecenterError(c) ==
  /\ screen = "map"
  /\ BagIn(c, mapRecenters)
  /\ event' = Event("recenterPosition", "error")
  /\ mapRecenters' = mapRecenters (-) SetToBag({c})
  /\ alerts' = Alert("Error", "Failed to get your location")
  /\ UNCHANGED <<map, mapEffects, mapFetches, nextId, screen, dashVars, okIds>>

\* a press on "Try Again" in the error panel
MapRetry ==
  /\ screen = "map" /\ MapsScreenView = "error" /\ CanTouch
  /\ event' = Event("retry", "")
  /\ map' = [map EXCEPT !.loading = TRUE, !.errorMsg = NoMsg]
  /\ mapEffects' = mapEffects
                     (+) SetToBag({[Effect(map.selectedType, FALSE) EXCEPT !.retry = TRUE]})
  /\ UNCHANGED <<mapRecenters, mapFetches, nextId, alerts, screen, dashVars, okIds>>

\* the user closes the oldest alert
DismissAlert ==
  /\ alerts # <<>>
  /\ event' = Event("dismiss", "")
  /\ alerts' = Tail(alerts)
  /\ UNCHANGED <<screen, mapVars, dashVars, nextId, okIds>>

(***************************************************************************)
(* DashboardScreen                                                         *)
(***************************************************************************)
categories ==
  <<[id |-> "all", name |-> "All"], [id |-> "restaurant", name |-> "Restaurants"],
    [id |-> "cafe", name |-> "Cafés"], [id |-> "laundry", name |-> "Laundries"]>>

CategoryIds == {categories[i].id : i \in DOMAIN categories}

\* texts the user types into the search field
SearchTexts == {<<>>, <<" ">>, <<"C","a","f","é">>, <<"m","a","i","n">>}

DashInit ==
  [searchQuery |-> <<>>, selectedCategory |-> "all", places |-> <<>>,
   loading |-> FALSE, location |-> Null]

\* the switch without its case 'laundry'
TypeOfNoLaundry(selectedCategory) ==
  CASE selectedCategory = "restaurant" -> <<"restaurant">>
    [] selectedCategory = "cafe" -> <<"cafe">>
    [] OTHER -> <<"restaurant", "cafe", "laundry">>

\* the switch of searchNearbyPlaces: the tokens of the request's type parameter,
\* which the url joins with commas
TypeOf(selectedCategory) ==
  CASE selectedCategory = "restaurant" -> <<"restaurant">>
    [] selectedCategory = "cafe" -> <<"cafe">>
    [] selectedCategory = "laundry" -> <<"laundry">>
    [] OTHER -> <<"restaurant", "cafe", "laundry">>

\* a request narrowed by the search text
DashRequestKeyword(d, trigger) ==
  [id |-> nextId, location |-> <<d.location.latitude, d.location.longitude>>,
   radius |-> Radius,
   type |-> TypeOf(d.selectedCategory)
              \o (IF trim(d.searchQuery) # <<>> THEN <<"keyword">> ELSE <<>>),
   searchQuery |-> d.searchQuery, trigger |-> trigger]

\* the request searchNearbyPlaces sends (location, radius and type), with the
\* search text the call keeps for filtering the response; d holds the values of the render that
\* created the function (its closure)
DashRequest(d, trigger) ==
  [id |-> nextId, location |-> <<d.location.latitude, d.location.longitude>>,
   radius |-> Radius, type |-> TypeOf(d.selectedCategory),
   searchQuery |-> d.searchQuery, trigger |-> trigger]

\* searchNearbyPlaces() up to its await, called by a handler that has already
\* set the cells of d to the values of next; the function itself reads d
searchNearbyPlaces(d, next, trigger) ==
  IF d.location = Null
  THEN /\ alerts' = Alert("Location required",
                          "Please allow location access to search nearby places")
       /\ dash' = next
       /\ UNCHANGED <<dashFetches, nextId>>
  ELSE /\ dash' = [next EXCEPT !.loading = TRUE]
       /\ dashFetches' = dashFetches \cup {DashRequest(d, trigger)}
       /\ nextId' = nextId + 1
       /\ UNCHANGED alerts

\* the response cut to its first 15 records before the text filter
DashPlacesTruncatedFirst(results, searchQuery) ==
  filteredPlaces(slice(results, DashLimit), searchQuery)

\* the places a successful response leaves in the list
DashPlaces(results, searchQuery) ==
  slice(filteredPlaces(results, searchQuery), DashLimit)

\* requestForegroundPermissionsAsync answers a getCurrentLocation call
DashPermission(g, status) ==
  /\ screen = "dash"
  /\ BagIn(g, dashLocating) /\ g.pc = "permission"
  /\ event' = Event("permission", status)
  /\ CASE status = "granted" ->
            /\ dashLocating' = (dashLocating (-) SetToBag({g}))
                                 (+) SetToBag({[g EXCEPT !.pc = "position"]})
            /\ UNCHANGED alerts
       [] status = "denied" ->
            /\ dashLocating' = dashLocating (-) SetToBag({g})
            /\ alerts' = Alert("Permission denied",
                               "Location permission is required to find nearby places")
       [] status = "error" ->
            /\ dashLocating' = dashLocating (-) SetToBag({g})
            /\ alerts' = Alert("Error", "Failed to get your location")
  /\ UNCHANGED <<dash, dashFetches, nextId, screen, mapVars, okIds>>

\* getCurrentLocation followed by an initial search
DashPositionThenSearch(g, pos) ==
  /\ screen = "dash"
  /\ BagIn(g, dashLocating) /\ g.pc = "position"
  /\ event' = Event("position", "ok")
  /\ dashLocating' = dashLocating (-) SetToBag({g})
  /\ dash' = [dash EXCEPT !.location =
                [latitude |-> pos.latitude, longitude |-> pos.longitude],
                          !.loading = TRUE]
  /\ dashFetches' = dashFetches \cup
       {DashRequest([dash EXCEPT !.location = pos], "mount")}
  /\ nextId' = nextId + 1
  /\ UNCHANGED <<alerts, screen, mapVars, okIds>>

\* getCurrentPositionAsync answers a getCurrentLocation call with a position
DashPosition(g, pos) ==
  /\ screen = "dash"
  /\ BagIn(g, dashLocating) /\ g.pc = "position"
  /\ event' = Event("position", "ok")
  /\ dashLocating' = dashLocating (-) SetToBag({g})
  /\ dash' = [dash EXCEPT !.location =
                [latitude |-> pos.latitude, longitude |-> pos.longitude]]
  /\ UNCHANGED <<dashFetches, nextId, alerts, screen, mapVars, okIds>>

\* getCurrentPositionAsync throws in a getCurrentLocation call
DashPositionError(g) ==
  /\ screen = "dash"
  /\ BagIn(g, dashLocating) /\ g.pc = "position"
  /\ event' = Event("position", "error")
  /\ dashLocating' = dashLocating (-) SetToBag({g})
  /\ alerts' = Alert("Error", "Failed to get your location")
  /\ UNCHANGED <<dash, dashFetches, nextId, screen, mapVars, okIds>>

\* a press on "Enable Location": getCurrentLocation up to its first await
getCurrentLocation ==
  /\ screen = "dash" /\ CanTouch
  /\ ~dash.loading /\ dash.places = <<>> /\ dash.location = Null
  /\ event' = Event("getCurrentLocation", "")
  /\ dashLocating' = dashLocating (+) SetToBag({[pc |-> "permission", mount |-> FALSE]})
  /\ UNCHANGED <<dash, dashFetches, nextId, alerts, screen, mapVars, okIds>>

\* the search field's onChangeText, and the button that empties the field
setSearchQuery(text) ==
  /\ screen = "dash" /\ CanTouch
  /\ text # dash.searchQuery
  /\ event' = Event("setSearchQuery", "")
  /\ dash' = [dash EXCEPT !.searchQuery = text]
  /\ UNCHANGED <<dashLocating, dashFetches, nextId, alerts, screen, mapVars, okIds>>

\* handleSearch without its test of the search text and the category
handleSearchAlways(trigger) ==
  /\ screen = "dash" /\ CanTouch
  /\ trigger = "button" => ~dash.loading
  /\ event' = Event("handleSearch", trigger)
  /\ searchNearbyPlaces(dash, dash, trigger)
  /\ UNCHANGED <<dashLocating, screen, mapVars, okIds>>

\* handleSearch, called by the search button ("button", disabled while loading)
\* or by the keyboard's submit key ("submit")
handleSearch(trigger) ==
  /\ screen = "dash" /\ CanTouch
  /\ trigger = "button" => ~dash.loading
  /\ event' = Event("handleSearch", trigger)
  /\ IF trim(dash.searchQuery) # <<>> \/ dash.selectedCategory # "all"
     THEN searchNearbyPlaces(dash, dash, trigger)
     ELSE UNCHANGED <<dash, dashFetches, nextId, alerts>>
  /\ UNCHANGED <<dashLocating, screen, mapVars, okIds>>

\* a press on a category button
CategoryPress(id) ==
  /\ screen = "dash" /\ CanTouch
  /\ event' = Event("category", id)
  /\ IF dash.location # Null
     THEN searchNearbyPlaces(dash, [dash EXCEPT !.selectedCategory = id], "category")
     ELSE /\ dash' = [dash EXCEPT !.selectedCategory = id]
          /\ UNCHANGED <<dashFetches, nextId, alerts>>
  /\ UNCHANGED <<dashLocating, screen, mapVars, okIds>>

\* searchNearbyPlaces resetting loading on success only
DashFetchResponseNoFinally(r, resp) ==
  /\ screen = "dash"
  /\ r \in dashFetches
  /\ event' = ResponseEvent(resp)
  /\ okIds' = IF resp.status = "OK" THEN okIds \cup {r.id} ELSE okIds
  /\ dashFetches' = dashFetches \ {r}
  /\ IF resp.status = "OK"
     THEN /\ dash' = [dash EXCEPT !.places = DashPlaces(resp.results, r.searchQuery),
                                  !.loading = FALSE]
          /\ UNCHANGED alerts
     ELSE /\ alerts' = IF resp.status = "NETWORK_ERROR"
                       THEN Alert("Error", "Failed to search nearby places")
                       ELSE Alert("Error",
                              "Failed to search nearby places. Please check your API key.")
          /\ UNCHANGED dash
  /\ UNCHANGED <<dashLocating, nextId, screen, mapVars>>

\* the provider answers a searchNearbyPlaces call
DashFetchResponse(r, resp) ==
  /\ screen = "dash"
  /\ r \in dashFetches
  /\ event' = ResponseEvent(resp)
  /\ okIds' = IF resp.status = "OK" THEN okIds \cup {r.id} ELSE okIds
  /\ dashFetches' = dashFetches \ {r}
  /\ IF resp.status = "OK"
     THEN /\ dash' = [dash EXCEPT !.places = DashPlaces(resp.results, r.searchQuery),
                                  !.loading = FALSE]
          /\ UNCHANGED alerts
     ELSE /\ alerts' = IF resp.status = "NETWORK_ERROR"
                       THEN Alert("Error", "Failed to search nearby places")
                       ELSE Alert("Error",
                              "Failed to search nearby places. Please check your API key.")
          /\ dash' = [dash EXCEPT !.loading = FALSE]
  /\ UNCHANGED <<dashLocating, nextId, screen, mapVars>>

\* Clear emptying the search field as well
ClearPlacesAndQuery ==
  /\ screen = "dash" /\ CanTouch
  /\ Len(dash.places) > 0
  /\ event' = Event("clear", "")
  /\ dash' = [dash EXCEPT !.places = <<>>, !.searchQuery = <<>>]
  /\ UNCHANGED <<dashLocating, dashFetches, nextId, alerts, screen, mapVars, okIds>>

\* a press on "Clear", shown while the list is not empty
ClearPlaces ==
  /\ screen = "dash" /\ CanTouch
  /\ Len(dash.places) > 0
  /\ event' = Event("clear", "")
  /\ dash' = [dash EXCEPT !.places = <<>>]
  /\ UNCHANGED <<dashLocating, dashFetches, nextId, alerts, screen, mapVars, okIds>>

(***************************************************************************)
(* SignInScreen and SignUpScreen                                           *)
(***************************************************************************)
\* values a call of the provider's SDK can reject with: an Error carrying a
\* message, an Error whose message is the empty string, an object carrying a
\* list of errors, and a value carrying neither
Thrown ==
  [Error      |-> [instanceofError |-> TRUE, message |-> "Password is incorrect.",
                   errors |-> <<>>],
   EmptyError |-> [instanceofError |-> TRUE, message |-> "", errors |-> <<>>],
   ApiErrors  |-> [instanceofError |-> FALSE, message |-> "",
                   errors |-> <<[message |-> "Identifier is invalid."]>>],
   Other      |-> [instanceofError |-> FALSE, message |-> "", errors |-> <<>>]]

\* session ids the provider creates; null when the attempt is not complete
SessionIds == {"sess_1", "null"}

\* err instanceof Error ? err.message : err?.errors?.[0]?.message || fallback
errorMessage(err, fallback) ==
  IF err.instanceofError THEN err.message
  ELSE IF err.errors # <<>> /\ err.errors[1].message # "" THEN err.errors[1].message
  ELSE fallback

\* the fallback text of the catch block of each handler
Fallback ==
  [onSignInPress |-> "Failed to sign in", onSignUpPress |-> "Failed to sign up",
   onVerifyPress |-> "Failed to verify"]

\* one more event is handled by the observed sign-in or sign-up screen
AuthStep ==
  /\ steps < MaxAuthSteps
  /\ steps' = steps + 1
  /\ UNCHANGED <<screen, mapVars, dashVars, nextId, okIds, history, filterRuns, profileVars>>

\* the provider's SDK has finished loading
ClerkLoaded ==
  /\ ~clerk.isLoaded
  /\ event' = Event("isLoaded", "")
  /\ clerk' = [clerk EXCEPT !.isLoaded = TRUE]
  /\ UNCHANGED <<signIn, signUp, route, authCalls, alerts>>

\* a press on "Sign In": onSignInPress up to its first await
onSignInPress ==
  /\ screen = "signIn" /\ route = "signIn" /\ CanTouch
  /\ ~signIn.loading
  /\ event' = Event("onSignInPress", "")
  /\ IF ~clerk.isLoaded
     THEN UNCHANGED <<signIn, authCalls>>
     ELSE /\ signIn' = [signIn EXCEPT !.loading = TRUE]
          /\ authCalls' = authCalls \cup {[fn |-> "onSignInPress", pc |-> "create",
                                           session |-> "null"]}
  /\ UNCHANGED <<signUp, clerk, route, alerts>>

\* a press on "Sign Up": onSignUpPress up to its first await
onSignUpPress ==
  /\ screen = "signUp" /\ route = "signUp" /\ CanTouch
  /\ ~signUp.pendingVerification /\ ~signUp.loading
  /\ event' = Event("onSignUpPress", "")
  /\ IF ~clerk.isLoaded
     THEN UNCHANGED <<signUp, authCalls>>
     ELSE /\ signUp' = [signUp EXCEPT !.loading = TRUE]
          /\ authCalls' = authCalls \cup {[fn |-> "onSignUpPress", pc |-> "create",
                                           session |-> "null"]}
  /\ UNCHANGED <<signIn, clerk, route, alerts>>

\* a press on "Verify Email": onVerifyPress up to its first await
onVerifyPress ==
  /\ screen = "signUp" /\ route = "signUp" /\ CanTouch
  /\ signUp.pendingVerification /\ ~signUp.loading
  /\ event' = Event("onVerifyPress", "")
  /\ IF ~clerk.isLoaded
     THEN UNCHANGED <<signUp, authCalls>>
     ELSE /\ signUp' = [signUp EXCEPT !.loading = TRUE]
          /\ authCalls' = authCalls \cup {[fn |-> "onVerifyPress", pc |-> "attempt",
                                           session |-> "null"]}
  /\ UNCHANGED <<signIn, clerk, route, alerts>>

\* setLoading(false) in the finally block of the handler fn
AuthFinally(fn) ==
  IF fn = "onSignInPress"
  THEN signIn' = [signIn EXCEPT !.loading = FALSE] /\ UNCHANGED signUp
  ELSE signUp' = [signUp EXCEPT !.loading = FALSE] /\ UNCHANGED signIn

\* signIn.create, signUp.create or attemptEmailAddressVerification resolves
AuthResolved(c, sessionId) ==
  /\ c \in authCalls /\ c.pc \in {"create", "attempt"}
  /\ event' = Event("resolved", c.pc)
  /\ authCalls' = (authCalls \ {c}) \cup
       {[c EXCEPT !.pc = IF c.fn = "onSignUpPress" THEN "prepare" ELSE "setActive",
                  !.session = IF c.fn = "onSignUpPress" THEN "null" ELSE sessionId]}
  /\ UNCHANGED <<signIn, signUp, clerk, route, alerts>>

\* prepareEmailAddressVerification resolves: setPendingVerification(true)
SignUpPrepared(c) ==
  /\ c \in authCalls /\ c.pc = "prepare"
  /\ event' = Event("resolved", c.pc)
  /\ authCalls' = authCalls \ {c}
  /\ signUp' = [signUp EXCEPT !.pendingVerification = TRUE, !.loading = FALSE]
  /\ UNCHANGED <<signIn, clerk, route, alerts>>

\* setActive resolves: the session is active and router.replace('/') runs
SessionActivated(c) ==
  /\ c \in authCalls /\ c.pc = "setActive"
  /\ event' = Event("resolved", c.pc)
  /\ authCalls' = authCalls \ {c}
  /\ clerk' = [clerk EXCEPT !.session = IF c.session = "null" THEN Null
                                        ELSE [id |-> c.session]]
  /\ route' = "/"
  /\ AuthFinally(c.fn)
  /\ UNCHANGED alerts

\* a catch block that also leaves the code-entry view
AuthRejectedResetsPending(c, thrown) ==
  /\ c \in authCalls
  /\ event' = Event("rejected", thrown)
  /\ authCalls' = authCalls \ {c}
  /\ alerts' = Alert("Error", errorMessage(Thrown[thrown], Fallback[c.fn]))
  /\ signUp' = [loading |-> FALSE, pendingVerification |-> FALSE]
  /\ signIn' = [signIn EXCEPT !.loading = FALSE]
  /\ UNCHANGED <<clerk, route>>

\* the call a handler is waiting for rejects: its catch and finally blocks
AuthRejected(c, thrown) ==
  /\ c \in authCalls
  /\ event' = Event("rejected", thrown)
  /\ authCalls' = authCalls \ {c}
  /\ alerts' = Alert("Error", errorMessage(Thrown[thrown], Fallback[c.fn]))
  /\ AuthFinally(c.fn)
  /\ UNCHANGED <<clerk, route>>

\* the user closes the oldest alert of the sign-in or sign-up screen
AuthDismissAlert ==
  /\ alerts # <<>>
  /\ event' = Event("dismiss", "")
  /\ alerts' = Tail(alerts)
  /\ UNCHANGED authVars

(***************************************************************************)
(* ProfileScreen                                                           *)
(***************************************************************************)
\* one more event is handled by the observed profile screen
ProfileStep ==
  /\ steps < MaxProfileSteps
  /\ steps' = steps + 1
  /\ UNCHANGED <<screen, mapVars, dashVars, nextId, okIds, history, filterRuns,
                 signIn, signUp, authCalls>>

\* useUser().user: absent until the SDK has loaded the signed-in user
user == IF clerk.isLoaded /\ clerk.session # Null THEN [id |-> "user_1"] ELSE Null

\* the titles of the two confirmation dialogs
Confirmations == {"Sign Out", "Delete Account"}

\* the SDK has finished loading the signed-in user
UserLoaded ==
  /\ screen = "profile"
  /\ ~clerk.isLoaded
  /\ event' = Event("isLoaded", "")
  /\ clerk' = [isLoaded |-> TRUE, session |-> [id |-> "sess_1"]]
  /\ UNCHANGED <<profile, profileCalls, route, alerts>>

\* a press on the settings button of the header
OpenSettings ==
  /\ screen = "profile" /\ route = "profile" /\ CanTouch
  /\ ~profile.settingsModalVisible
  /\ event' = Event("openSettings", "")
  /\ profile' = [profile EXCEPT !.settingsModalVisible = TRUE]
  /\ UNCHANGED <<profileCalls, clerk, route, alerts>>

\* a press on the close button of the settings modal, or the back key
CloseSettings ==
  /\ screen = "profile" /\ route = "profile" /\ CanTouch
  /\ profile.settingsModalVisible
  /\ event' = Event("closeSettings", "")
  /\ profile' = [profile EXCEPT !.settingsModalVisible = FALSE]
  /\ UNCHANGED <<profileCalls, clerk, route, alerts>>

\* a press on "Edit Profile", "Change Password" or "Privacy Settings"
SettingsOption(title) ==
  /\ screen = "profile" /\ route = "profile" /\ CanTouch
  /\ profile.settingsModalVisible
  /\ event' = Event("settingsOption", title)
  /\ profile' = [profile EXCEPT !.settingsModalVisible = FALSE]
  /\ alerts' = Alert(title, "coming soon")
  /\ UNCHANGED <<profileCalls, clerk, route>>

\* handleSignOut calling signOut() without a confirmation dialog
handleSignOutAtOnce ==
  /\ screen = "profile" /\ route = "profile" /\ CanTouch
  /\ profile.settingsModalVisible
  /\ event' = Event("handleSignOut", "")
  /\ profileCalls' = profileCalls (+) SetToBag({[fn |-> "signOut"]})
  /\ UNCHANGED <<profile, clerk, route, alerts>>

\* a press on "Sign Out" in the settings modal: the confirmation dialog opens
handleSignOut ==
  /\ screen = "profile" /\ route = "profile" /\ CanTouch
  /\ profile.settingsModalVisible
  /\ event' = Event("handleSignOut", "")
  /\ alerts' = Alert("Sign Out", "Are you sure you want to sign out?")
  /\ UNCHANGED <<profile, profileCalls, clerk, route>>

\* a press on "Delete Account" in the settings modal: the confirmation dialog opens
handleDeleteAccount ==
  /\ screen = "profile" /\ route = "profile" /\ CanTouch
  /\ profile.settingsModalVisible
  /\ event' = Event("handleDeleteAccount", "")
  /\ alerts' = Alert("Delete Account",
                     "Are you sure you want to delete your account? This action cannot be reversed.")
  /\ UNCHANGED <<profile, profileCalls, clerk, route>>

\* "Cancel" in a confirmation dialog
ConfirmationCancel ==
  /\ screen = "profile"
  /\ alerts # <<>> /\ Head(alerts).title \in Confirmations
  /\ event' = Event("cancel", Head(alerts).title)
  /\ alerts' = Tail(alerts)
  /\ UNCHANGED <<profile, profileCalls, clerk, route>>

\* "Sign Out" in the confirmation dialog: its onPress up to `await signOut()`
SignOutConfirmed ==
  /\ screen = "profile"
  /\ alerts # <<>> /\ Head(alerts).title = "Sign Out"
  /\ event' = Event("confirm", "Sign Out")
  /\ alerts' = Tail(alerts)
  /\ profileCalls' = profileCalls (+) SetToBag({[fn |-> "signOut"]})
  /\ UNCHANGED <<profile, clerk, route>>

\* "Delete" in the confirmation dialog: its onPress up to `await user?.delete()`;
\* without a user the optional call is skipped and the handler runs on
DeleteConfirmed ==
  /\ screen = "profile"
  /\ alerts # <<>> /\ Head(alerts).title = "Delete Account"
  /\ event' = Event("confirm", "Delete Account")
  /\ alerts' = Tail(alerts)
  /\ IF user = Null
     THEN /\ profile' = [profile EXCEPT !.settingsModalVisible = FALSE]
          /\ route' = "/sign-in"
          /\ UNCHANGED profileCalls
     ELSE /\ profileCalls' = profileCalls (+) SetToBag({[fn |-> "delete"]})
          /\ UNCHANGED <<profile, route>>
  /\ UNCHANGED clerk

\* signOut() or user.delete() resolves: the session is gone, the modal is
\* closed and router.replace('/sign-in') runs
ProfileResolved(c) ==
  /\ screen = "profile"
  /\ BagIn(c, profileCalls)
  /\ event' = Event("resolved", c.fn)
  /\ profileCalls' = profileCalls (-) SetToBag({c})
  /\ clerk' = [clerk EXCEPT !.session = Null]
  /\ profile' = [profile EXCEPT !.settingsModalVisible = FALSE]
  /\ route' = "/sign-in"
  /\ UNCHANGED alerts

\* err instanceof Error ? err.message : fallback
profileErrorMessage(err, fallback) ==
  IF err.instanceofError THEN err.message ELSE fallback

\* signOut() or user.delete() rejects: the catch block
ProfileRejected(c, thrown) ==
  /\ screen = "profile"
  /\ BagIn(c, profileCalls)
  /\ event' = Event("rejected", c.fn)
  /\ profileCalls' = profileCalls (-) SetToBag({c})
  /\ alerts' = Alert("Error",
                     profileErrorMessage(Thrown[thrown],
                       IF c.fn = "signOut" THEN "Failed to sign out"
                       ELSE "Failed to delete account"))
  /\ UNCHANGED <<profile, clerk, route>>

\* the user closes the oldest alert, which is not a confirmation dialog
ProfileDismissAlert ==
  /\ screen = "profile"
  /\ alerts # <<>> /\ Head(alerts).title \notin Confirmations
  /\ event' = Event("dismiss", "")
  /\ alerts' = Tail(alerts)
  /\ UNCHANGED <<profile, profileCalls, clerk, route>>

(***************************************************************************)
(* Specification                                                           *)
(***************************************************************************)
\* the state in which the observed screen is mounted
Mounted ==
  /\ map = MapInit
  /\ mapEffects = IF screen = "map" THEN SetToBag({Effect("restaurant", TRUE)}) ELSE EmptyBag
  /\ mapRecenters = EmptyBag
  /\ mapFetches = {}
  /\ dash = DashInit
  /\ dashLocating = IF screen = "dash" THEN SetToBag({[pc |-> "permission", mount |-> TRUE]})
                    ELSE EmptyBag
  /\ dashFetches = {}
  /\ nextId = 1
  /\ okIds = {}
  /\ alerts = <<>>
  /\ event = Event("mount", screen)
  /\ steps = 0
  /\ history = [granted |-> FALSE, placesType |-> <<>>, cleared |-> FALSE]
  /\ filterRuns = {}
  /\ signIn = [loading |-> FALSE]
  /\ signUp = [loading |-> FALSE, pendingVerification |-> FALSE]
  /\ clerk = [isLoaded |-> FALSE, session |-> Null]
  /\ route = screen
  /\ authCalls = {}
  /\ profile = [settingsModalVisible |-> FALSE]
  /\ profileCalls = EmptyBag

Init ==
  /\ screen \in {"map", "dash"}
  /\ Mounted

\* the record of what has happened, after the step that handled event' (the
\* last conjunct of every step, which reads what the step has done)
History ==
  LET answered == (mapFetches \ mapFetches') \cup (dashFetches \ dashFetches')
      issued == (mapFetches' \ mapFetches) \cup (dashFetches' \ dashFetches)
  IN history' =
       [granted |-> history.granted \/ event' = Event("permission", "granted"),
        placesType |->
          IF event'.op = "response" /\ event'.arg = "OK"
          THEN (CHOOSE r \in answered : TRUE).type
          ELSE history.placesType,
        cleared |-> \/ event'.op = "clear"
                    \/ history.cleared /\ issued = {}]

\* one more event is handled by the observed screen
Step ==
  /\ steps < MaxSteps
  /\ steps' = steps + 1
  /\ UNCHANGED <<filterRuns, authVars, profileVars>>

Next ==
  \/ \E e \in BagToSet(mapEffects), status \in {"granted", "denied", "error"} :
       Step /\ MapPermission(e, status) /\ History
  \/ \E e \in BagToSet(mapEffects), pos \in Positions : Step /\ MapPosition(e, pos) /\ History
  \/ \E e \in BagToSet(mapEffects) : Step /\ MapPositionError(e) /\ History
  \/ \E r \in mapFetches, resp \in Responses : Step /\ MapFetchResponse(r, resp) /\ History
  \/ \E type \in MapTypes : Step /\ handleTypeChange(type) /\ History
  \/ Step /\ centerOnUserLocation /\ History
  \/ \E c \in BagToSet(mapRecenters), pos \in Positions :
       Step /\ MapRecenterPosition(c, pos) /\ History
  \/ \E c \in BagToSet(mapRecenters) : Step /\ MapRecenterError(c) /\ History
  \/ Step /\ MapRetry /\ History
  \/ \E g \in BagToSet(dashLocating), status \in {"granted", "denied", "error"} :
       Step /\ DashPermission(g, status) /\ History
  \/ \E g \in BagToSet(dashLocating), pos \in Positions : Step /\ DashPosition(g, pos) /\ History
  \/ \E g \in BagToSet(dashLocating) : Step /\ DashPositionError(g) /\ History
  \/ Step /\ getCurrentLocation /\ History
  \/ \E text \in SearchTexts : Step /\ setSearchQuery(text) /\ History
  \/ \E trigger \in {"button", "submit"} : Step /\ handleSearch(trigger) /\ History
  \/ \E id \in CategoryIds : Step /\ CategoryPress(id) /\ History
  \/ \E r \in dashFetches, resp \in Responses : Step /\ DashFetchResponse(r, resp) /\ History
  \/ Step /\ ClearPlaces /\ History
  \/ Step /\ DismissAlert /\ History

Spec == Init /\ [][Next]_vars

(***************************************************************************)
(* The dashboard screen alone, over a longer run                           *)
(***************************************************************************)
DashboardInit ==
  /\ screen = "dash"
  /\ Mounted

DashStep ==
  /\ steps < MaxDashSteps
  /\ steps' = steps + 1
  /\ UNCHANGED <<filterRuns, authVars, profileVars>>

DashboardNext ==
  \/ \E g \in BagToSet(dashLocating), status \in {"granted", "denied", "error"} :
       DashStep /\ DashPermission(g, status) /\ History
  \/ \E g \in BagToSet(dashLocating), pos \in Positions :
       DashStep /\ DashPosition(g, pos) /\ History
  \/ \E g \in BagToSet(dashLocating) : DashStep /\ DashPositionError(g) /\ History
  \/ DashStep /\ getCurrentLocation /\ History
  \/ \E text \in SearchTexts : DashStep /\ setSearchQuery(text) /\ History
  \/ \E trigger \in {"button", "submit"} : DashStep /\ handleSearch(trigger) /\ History
  \/ \E id \in CategoryIds : DashStep /\ CategoryPress(id) /\ History
  \/ \E r \in dashFetches, resp \in Responses : DashStep /\ DashFetchResponse(r, resp) /\ History
  \/ DashStep /\ ClearPlaces /\ History
  \/ DashStep /\ DismissAlert /\ History

DashboardSpec == DashboardInit /\ [][DashboardNext]_vars

(***************************************************************************)
(* The text filter of searchNearbyPlaces on its own: provider responses and *)
(* search texts are drawn from the sets below and the filter is applied to  *)
(* them, or applied once more to one of its own outputs.                    *)
(***************************************************************************)
FilterTexts ==
  SearchTexts \cup
    {<<" ", " ">>, <<"c","a","f","é">>, <<"C","A","F","É">>, <<"m","a","i","n">>,
     <<"S","H","A","C","K">>}

FilterRun(results, searchQuery) ==
  [results |-> results, searchQuery |-> searchQuery,
   filteredPlaces |-> filteredPlaces(results, searchQuery)]

\* a response arrives for a request that captured the text searchQuery
FilterResponse(results, searchQuery) ==
  /\ Cardinality(filterRuns) < MaxFilterRuns
  /\ filterRuns' = filterRuns \cup {FilterRun(results, searchQuery)}
  /\ UNCHANGED <<screen, mapVars, dashVars, nextId, okIds, alerts, event, steps, history,
               authVars, profileVars>>

\* the same text is applied to the output of an earlier application
FilterAgain(run) ==
  /\ Cardinality(filterRuns) < MaxFilterRuns
  /\ run \in filterRuns
  /\ filterRuns' = filterRuns \cup {FilterRun(run.filteredPlaces, run.searchQuery)}
  /\ filterRuns' # filterRuns
  /\ UNCHANGED <<screen, mapVars, dashVars, nextId, okIds, alerts, event, steps, history,
               authVars, profileVars>>

FilterInit == Init /\ screen = "dash"

FilterNext ==
  \/ \E results \in ResultLists, searchQuery \in FilterTexts :
       FilterResponse(results, searchQuery)
  \/ \E run \in filterRuns : FilterAgain(run)

FilterSpec == FilterInit /\ [][FilterNext]_vars

(***************************************************************************)
(* The sign-in and the sign-up screen                                      *)
(***************************************************************************)
AuthInit ==
  /\ screen \in {"signIn", "signUp"}
  /\ Mounted

AuthNext ==
  \/ AuthStep /\ ClerkLoaded
  \/ AuthStep /\ onSignInPress
  \/ AuthStep /\ onSignUpPress
  \/ AuthStep /\ onVerifyPress
  \/ \E c \in authCalls, sessionId \in SessionIds : AuthStep /\ AuthResolved(c, sessionId)
  \/ \E c \in authCalls : AuthStep /\ SignUpPrepared(c)
  \/ \E c \in authCalls : AuthStep /\ SessionActivated(c)
  \/ \E c \in authCalls, thrown \in DOMAIN Thrown : AuthStep /\ AuthRejected(c, thrown)
  \/ AuthStep /\ AuthDismissAlert

AuthSpec == AuthInit /\ [][AuthNext]_vars

(***************************************************************************)
(* The profile screen                                                      *)
(***************************************************************************)
ProfileInit ==
  /\ screen = "profile"
  /\ Mounted

ProfileNext ==
  \/ ProfileStep /\ UserLoaded
  \/ ProfileStep /\ OpenSettings
  \/ ProfileStep /\ CloseSettings
  \/ \E title \in {"Edit Profile", "Change Password", "Privacy Settings"} :
       ProfileStep /\ SettingsOption(title)
  \/ ProfileStep /\ handleSignOut
  \/ ProfileStep /\ handleDeleteAccount
  \/ ProfileStep /\ ConfirmationCancel
  \/ ProfileStep /\ SignOutConfirmed
  \/ ProfileStep /\ DeleteConfirmed
  \/ \E c \in BagToSet(profileCalls) : ProfileStep /\ ProfileResolved(c)
  \/ \E c \in BagToSet(profileCalls), thrown \in DOMAIN Thrown :
       ProfileStep /\ ProfileRejected(c, thrown)
  \/ ProfileStep /\ ProfileDismissAlert

ProfileSpec == ProfileInit /\ [][ProfileNext]_vars

TypeOK ==
  /\ screen \in {"map", "dash"}
  /\ map.loading \in BOOLEAN
  /\ nextId \in 1..(MaxSteps + 1)
  /\ steps \in 0..(IF MaxSteps < MaxAuthSteps THEN MaxAuthSteps ELSE MaxSteps)

(***************************************************************************)
(* The observed screen's view of the cells both screens have               *)
(***************************************************************************)
Fetches == IF screen = "map" THEN mapFetches ELSE dashFetches
Places == IF screen = "map" THEN map.places ELSE dash.places
Loading == IF screen = "map" THEN map.loadingPlaces ELSE dash.loading
Location == IF screen = "map" THEN map.location ELSE dash.location
Category == IF screen = "map" THEN map.selectedType ELSE dash.selectedCategory

Range(f) == {f[i] : i \in DOMAIN f}

\* the tokens the spec assigns to a category: "all" is every defined token
TokensOf(category) ==
  IF category = "all" THEN <<"restaurant", "cafe", "laundry">> ELSE <<category>>

(***************************************************************************)
(* Properties                                                              *)
(***************************************************************************)

\* C1: stale-response rejection.  When the response of a request A is processed
\* after the OK response of a request B that was issued later than A, places stays
\* what B's response made it, on the map and on the dashboard.
C1_StaleResponseRejected ==
  [][\A a \in Fetches \ Fetches' :
       (\E b \in okIds : b > a.id) => Places' = Places]_vars

\* C2: while a places request is in flight the screen's loading flag is true.
C2_LoadingWhileInFlight == Fetches # {} => Loading

\* C3: a user trigger of a places query is disabled while loading, so a request
\* started by a user trigger is started with the loading flag false and while no
\* request of the same trigger is outstanding.
C3_TriggerNotReentrant ==
  [][\A r \in Fetches' \ Fetches :
       r.trigger # "effect" =>
         /\ ~Loading
         /\ \A q \in Fetches : q.trigger # r.trigger]_vars

\* C4: a category change sets the selected category and, with location present,
\* issues at once a request whose type is the token set of the new category; with
\* location absent it issues no request.
C4_CategoryChangeQueriesNewCategory ==
  [][event'.op \in {"handleTypeChange", "category"} =>
       /\ Category' = event'.arg
       /\ IF Location # Null
          THEN \E r \in Fetches' \ Fetches : r.type = TokensOf(event'.arg)
          ELSE Fetches' = Fetches]_vars

\* C5: the type of a dashboard request is a function of the selectedCategory
\* that searchNearbyPlaces reads, and of nothing else: "all" gives every defined
\* token, in the order restaurant,cafe,laundry, and a specific category gives its
\* own token only.
C5_TypeIsFunctionOfCategory ==
  [][\A r \in dashFetches' \ dashFetches :
       /\ dash.selectedCategory = "all" =>
            /\ r.type = <<"restaurant", "cafe", "laundry">>
            /\ Range(r.type) = CategoryIds \ {"all"}
       /\ dash.selectedCategory # "all" => r.type = <<dash.selectedCategory>>]_vars

\* C5 witness: a request for the single token of a specific category is in flight
C5_Witness ==
  /\ screen = "dash"
  /\ \E r \in dashFetches : r.type = <<"laundry">>

\* C6: the list bound to the UI never has more than 20 entries on the map and
\* never more than 15 on the dashboard.
C6_PlacesBounded ==
  /\ Len(map.places) <= 20
  /\ Len(dash.places) <= 15

\* C6 witness: a response longer than the limit was cut down to the limit
C6_Witness ==
  /\ event.op = "response" /\ event.arg = "OK"
  /\ \/ screen = "map" /\ Len(map.places) = 20
     \/ screen = "dash" /\ Len(dash.places) = 15

\* C7: when the provider answers with a status other than OK, places becomes
\* empty, an alert is raised and the loading flag is false afterwards.
C7_NonOkEmptiesPlaces ==
  [][event'.op = "response" /\ event'.arg = "ZERO_RESULTS" =>
       /\ Places' = <<>>
       /\ Len(alerts') = Len(alerts) + 1
       /\ ~Loading']_vars

\* C8: when permission is denied on the map, the error panel (which holds the
\* retry control) is shown with a message containing "denied", location is left
\* as it was and no request is issued; and on both screens a step that issues a
\* places request ends with location present.
C8_NoQueryWithoutLocation ==
  [][/\ screen = "map" /\ event' = Event("permission", "denied") =>
          /\ "denied" \in Range(map'.errorMsg)
          /\ MapsScreenView' = "error"
          /\ map'.location = map.location
          /\ mapFetches' = mapFetches
     /\ Fetches' \ Fetches # {} => Location' # Null]_vars

\* C8 witness: permission was denied at mount
C8_Witness ==
  /\ screen = "map"
  /\ event = Event("permission", "denied")
  /\ map.location = Null
  /\ MapsScreenView = "error"
  /\ mapFetches = {}

\* the execution of the effect that mount started, waiting for the position
MountEffect ==
  [pc |-> "position", selectedType |-> "restaurant", mount |-> TRUE, retry |-> FALSE]

\* C9: on the map, when the acquisition started at mount gets a position,
\* location is set to it and a request for that coordinate and the selected type,
\* which is still the default "restaurant", is issued in the same step.
C9_MapMountIssuesInitialQuery ==
  [][/\ screen = "map"
     /\ BagIn(MountEffect, mapEffects) /\ ~BagIn(MountEffect, mapEffects')
     /\ event' = Event("position", "ok")
     => /\ map'.location # Null
        /\ \E r \in mapFetches' \ mapFetches :
             /\ r.location = <<map'.location.latitude, map'.location.longitude>>
             /\ r.type = <<map'.selectedType>>
             /\ r.type = <<"restaurant">>
             /\ r.radius = 5000
             /\ r.trigger = "effect"]_vars

\* C9 witness: the initial request is in flight right after the position arrived
C9_Witness ==
  /\ screen = "map"
  /\ event = Event("position", "ok")
  /\ steps = 2
  /\ map.location # Null
  /\ \E r \in mapFetches : r.id = 1 /\ r.trigger = "effect"

\* the getCurrentLocation call that mount started, waiting for the position
MountLocating == [pc |-> "position", mount |-> TRUE]

\* C10 as stated: on the dashboard, when the acquisition started at mount gets a
\* position, location is set and a request for the current category is issued in
\* the same step.
C10_DashMountIssuesInitialQuery ==
  [][/\ screen = "dash"
     /\ BagIn(MountLocating, dashLocating) /\ ~BagIn(MountLocating, dashLocating')
     /\ event' = Event("position", "ok")
     => /\ dash'.location # Null
        /\ \E r \in dashFetches' \ dashFetches : r.type = TokensOf(dash'.selectedCategory)]_vars

\* C10 amended: on the dashboard, when the acquisition started at mount gets a
\* position, location is set to it and no request is issued; a request is issued
\* only by a search submission or a press on a category button.
C10_DashMountIssuesNoQuery ==
  [][/\ /\ screen = "dash"
        /\ BagIn(MountLocating, dashLocating) /\ ~BagIn(MountLocating, dashLocating')
        /\ event' = Event("position", "ok")
        => /\ dash'.location \in Positions
           /\ dashFetches' = dashFetches
           /\ dash'.loading = dash.loading
     /\ dashFetches' \ dashFetches # {} => event'.op \in {"handleSearch", "category"}]_vars

\* C10 witness: location was acquired at mount and nothing is in flight
C10_Witness ==
  /\ screen = "dash"
  /\ event = Event("position", "ok")
  /\ dash.location # Null
  /\ dash.selectedCategory = "all"
  /\ dashFetches = {}
  /\ nextId = 1

\* C11 as stated: a search submission with location present issues exactly one
\* request when the search text is not the empty string or the category is not
\* "all", and otherwise changes nothing; editing the search text issues no
\* request and leaves places as it is.
C11_SubmitQueriesIffNonEmpty ==
  [][/\ event'.op = "handleSearch" /\ dash.location # Null =>
          IF dash.searchQuery # <<>> \/ dash.selectedCategory # "all"
          THEN Cardinality(dashFetches' \ dashFetches) = 1 /\ dashFetches \subseteq dashFetches'
          ELSE UNCHANGED <<dash, dashFetches, dashLocating, alerts, nextId>>
     /\ event'.op = "setSearchQuery" =>
          /\ dashFetches' = dashFetches
          /\ dash'.places = dash.places]_vars

\* a text that holds a character other than the space
NonBlank(text) == \E i \in DOMAIN text : text[i] # " "

\* C11 amended: a search submission with location present issues exactly one
\* request when the search text holds a character other than white space or the
\* category is not "all", and otherwise (a text that is empty or made of white
\* space only, with category "all") changes nothing; editing the search text
\* issues no request and leaves places as it is.
C11_SubmitQueriesIffNonBlank ==
  [][/\ event'.op = "handleSearch" /\ dash.location # Null =>
          IF NonBlank(dash.searchQuery) \/ dash.selectedCategory # "all"
          THEN Cardinality(dashFetches' \ dashFetches) = 1 /\ dashFetches \subseteq dashFetches'
          ELSE UNCHANGED <<dash, dashFetches, dashLocating, alerts, nextId>>
     /\ event'.op = "setSearchQuery" =>
          /\ dashFetches' = dashFetches
          /\ dash'.places = dash.places]_vars

\* C11 witness: a submission of the text "Café" under category "all" has issued
\* the only request in flight
C11_Witness ==
  /\ screen = "dash"
  /\ event.op = "handleSearch"
  /\ dash.selectedCategory = "all"
  /\ dash.searchQuery = <<"C", "a", "f", "é">>
  /\ \E r \in dashFetches : dashFetches = {r} /\ r.trigger = event.arg

\* C12: a press on the recenter button issues no request by itself; when the
\* position arrives, location becomes the new coordinate and one request centred
\* on it is issued in the same step; when the acquisition fails, an alert is
\* raised, no request is issued and location and places stay as they were.
C12_RecenterQueriesNewCenter ==
  [][/\ event'.op = "centerOnUserLocation" =>
          /\ mapFetches' = mapFetches
          /\ map' = map
          /\ mapRecenters' # mapRecenters
     /\ event' = Event("recenterPosition", "ok") =>
          /\ map'.location # Null
          /\ \E r \in mapFetches' :
               /\ mapFetches' \ mapFetches = {r}
               /\ r.location = <<map'.location.latitude, map'.location.longitude>>
               /\ \E pos \in Positions : r.location = <<pos.latitude, pos.longitude>>
     /\ event' = Event("recenterPosition", "error") =>
          /\ Len(alerts') = Len(alerts) + 1
          /\ mapFetches' = mapFetches
          /\ map'.location = map.location
          /\ map'.places = map.places]_vars

\* C12 witness: the request of a recenter is in flight, centred on the location
\* the recenter has just stored
C12_Witness ==
  /\ screen = "map"
  /\ event = Event("recenterPosition", "ok")
  /\ \E r \in mapFetches :
       /\ r.trigger = "centerOnUserLocation"
       /\ r.location = <<map.location.latitude, map.location.longitude>>
       /\ \E q \in mapFetches : q.trigger = "effect" /\ q.location # r.location

\* C13: Clear empties places, issues no request and leaves location,
\* selectedCategory, searchQuery and loading as they were.
C13_ClearFrame ==
  [][event'.op = "clear" =>
       /\ dash'.places = <<>>
       /\ dashFetches' = dashFetches
       /\ nextId' = nextId
       /\ dash'.location = dash.location
       /\ dash'.selectedCategory = dash.selectedCategory
       /\ dash'.searchQuery = dash.searchQuery
       /\ dash'.loading = dash.loading]_vars

\* C13 witness: Clear was pressed on a list found by a text search; the text,
\* the category and the location are still there
C13_Witness ==
  /\ screen = "dash"
  /\ event.op = "clear"
  /\ dash.places = <<>>
  /\ dash.searchQuery = <<"C", "a", "f", "é">>
  /\ dash.location # Null
  /\ okIds # {}

\* two characters that are the same letter
SameLetter(x, y) ==
  \/ x = y
  \/ x \in DOMAIN UpperToLower /\ UpperToLower[x] = y
  \/ y \in DOMAIN UpperToLower /\ UpperToLower[y] = x

\* two texts that differ at most in the case of their letters
SameUpToCase(s, t) ==
  /\ Len(s) = Len(t)
  /\ \A i \in 1..Len(s) : SameLetter(s[i], t[i])

\* sub occurs in text when the case of letters is ignored
OccursIn(sub, text) ==
  \E i \in 1..(Len(text) - Len(sub) + 1) :
    \A j \in 1..Len(sub) : SameLetter(text[i + j - 1], sub[j])

\* the places of a list in whose name or address the text occurs, in list order
Keeping(results, text) ==
  SelectSeq(results, LAMBDA p : OccursIn(text, p.name) \/ OccursIn(text, p.vicinity))

\* C14 as stated: texts that differ only in letter case select the same places
\* of a response; filtering a filtered list with the same text changes nothing;
\* the empty text selects the whole response; and for every text the places
\* selected are exactly those in whose name or address the text occurs.
C14_FilterCaseInsensitiveIdempotent ==
  /\ \A a, b \in filterRuns :
       /\ a.results = b.results /\ SameUpToCase(a.searchQuery, b.searchQuery)
            => a.filteredPlaces = b.filteredPlaces
       /\ b.results = a.filteredPlaces /\ b.searchQuery = a.searchQuery
            => b.filteredPlaces = a.filteredPlaces
  /\ \A a \in filterRuns :
       /\ a.searchQuery = <<>> => a.filteredPlaces = a.results
       /\ a.filteredPlaces = Keeping(a.results, a.searchQuery)

\* C14 amended: as stated, except that a text made of white space only selects
\* the whole response, like the empty text; the places selected are exactly
\* those in whose name or address the text occurs for every text that holds a
\* character other than white space.
C14_FilterExceptBlank ==
  /\ \A a, b \in filterRuns :
       /\ a.results = b.results /\ SameUpToCase(a.searchQuery, b.searchQuery)
            => a.filteredPlaces = b.filteredPlaces
       /\ b.results = a.filteredPlaces /\ b.searchQuery = a.searchQuery
            => b.filteredPlaces = a.filteredPlaces
  /\ \A a \in filterRuns :
       /\ ~NonBlank(a.searchQuery) => a.filteredPlaces = a.results
       /\ NonBlank(a.searchQuery) =>
            a.filteredPlaces = Keeping(a.results, a.searchQuery)

\* C14 witness: "café" and "CAFÉ" were applied to the response holding
\* "Sunrise Café" and "Burger Shack", and both kept "Sunrise Café" only
C14_Witness ==
  \E a, b \in filterRuns :
    /\ a.results = <<SunriseCafe, BurgerShack>> /\ b.results = a.results
    /\ a.searchQuery = <<"c","a","f","é">>
    /\ b.searchQuery = <<"C","A","F","É">>
    /\ a.filteredPlaces = <<SunriseCafe>>
    /\ b.filteredPlaces = <<SunriseCafe>>

\* the parameters a request sends to the provider
Sent(r) == [location |-> r.location, radius |-> r.radius, type |-> r.type]

\* C15: the location, radius and type a dashboard request sends are determined
\* by the location and the category the issuing call reads, whatever the search
\* text is, so that requests issued under different texts send the same
\* parameters; and every request of either screen has radius 5000.
C15_SearchTextNotInRequest ==
  [][/\ \A r \in dashFetches' \ dashFetches :
          Sent(r) = [location |-> <<dash.location.latitude, dash.location.longitude>>,
                     radius |-> 5000,
                     type |-> TokensOf(dash.selectedCategory)]
     /\ \A r \in Fetches' : r.radius = 5000]_vars

\* C15 witness: two requests issued under different search texts are in flight
\* and send the same location, radius and type
C15_Witness ==
  /\ screen = "dash"
  /\ \E r1, r2 \in dashFetches :
       /\ r1.searchQuery = <<>>
       /\ r2.searchQuery = <<"C", "a", "f", "é">>
       /\ Sent(r1) = Sent(r2)

\* the first n records of a list, in the order of the list
FirstN(results, n) ==
  [i \in 1..(IF Len(results) < n THEN Len(results) ELSE n) |-> results[i]]

\* C16: when a request that was issued with no search text is answered with
\* status OK, places becomes the first 20 (map) or the first 15 (dashboard)
\* records of the response, in the order of the response, whatever places held
\* before; a response of at most that many records is stored whole.
C16_PlacesIsPrefixOfResponse ==
  [][event'.op = "response" /\ event'.arg = "OK" =>
       \A a \in Fetches \ Fetches' :
         (screen = "map" \/ a.searchQuery = <<>>) =>
           /\ Places' = FirstN(event'.results, IF screen = "map" THEN 20 ELSE 15)
           /\ Len(event'.results) <= (IF screen = "map" THEN 20 ELSE 15)
                => Places' = event'.results]_vars

\* C16 witness: the map shows the first 20 records of a response that carried
\* more, the second OK response of the run
C16_Witness ==
  /\ screen = "map"
  /\ event.op = "response" /\ event.arg = "OK"
  /\ Len(event.results) > 20
  /\ Len(map.places) = 20
  /\ \A i \in 1..20 : map.places[i] = event.results[i]
  /\ Cardinality(okIds) = 2

\* an execution of the effect that mount or a press on "Try Again" started has
\* received its position in this step
UserStartedEffectDone ==
  \E e \in BagToSet(mapEffects) :
    /\ e.pc = "position"
    /\ e.mount \/ e.retry
    /\ CopiesIn(e, mapEffects') < CopiesIn(e, mapEffects)

\* C17: every request is issued by a step of the mount or of a user action (a
\* filter, category or search press, or the continuation of the mount's
\* acquisition, of a retry or of a recenter), each such step issues one request,
\* and so no request follows a failed one unless the user acted.
C17_NoAutomaticQuery ==
  [][Fetches' \ Fetches # {} =>
       /\ Cardinality(Fetches' \ Fetches) = 1
       /\ nextId' = nextId + 1
       /\ \/ event'.op \in {"handleTypeChange", "handleSearch", "category"}
          \/ event'.op = "recenterPosition"
          \/ event'.op = "position" /\ screen = "map" /\ UserStartedEffectDone]_vars

\* the step has handled a failure of the location service
LocationFailure ==
  \/ event'.op = "permission" /\ event'.arg \in {"denied", "error"}
  \/ event'.op = "position" /\ event'.arg = "error"

\* the step has handled a failed places request
QueryFailure == event'.op = "response" /\ event'.arg # "OK"

\* C18: every failure is handled by the screen.  A failed acquisition shows the
\* error panel with its retry control on the map and raises an alert on the
\* dashboard, where the "Enable Location" button stays on display while location
\* is absent; a failed recenter and a failed request raise an alert, and a failed
\* request leaves the loading flag false so that the search button is enabled.
\* No loading flag is set once nothing is outstanding.
C18_FailuresHandledAtScreen ==
  [][/\ LocationFailure /\ screen = "map" =>
          /\ map'.errorMsg # NoMsg
          /\ MapsScreenView' = "error"
     /\ LocationFailure /\ screen = "dash" =>
          /\ Len(alerts') = Len(alerts) + 1
          /\ dash'.location = Null => ~dash'.loading /\ dash'.places = <<>>
     /\ event' = Event("recenterPosition", "error") => Len(alerts') = Len(alerts) + 1
     /\ QueryFailure =>
          /\ Len(alerts') = Len(alerts) + 1
          /\ ~Loading'
     /\ screen = "map" /\ mapEffects' = EmptyBag => ~map'.loading
     /\ Fetches' = {} => ~Loading']_vars

\* C18 witness: the only request of the dashboard has failed with a network
\* exception; the alert is on display and loading is false again
C18_Witness ==
  /\ screen = "dash"
  /\ event.op = "response" /\ event.arg = "NETWORK_ERROR"
  /\ alerts # <<>>
  /\ dashFetches = {}
  /\ ~dash.loading
  /\ nextId = 2

\* the execution of the effect that a press on "Try Again" started has received
\* its position in this step
RetryEffectDone ==
  \E e \in BagToSet(mapEffects) :
    /\ e.pc = "position"
    /\ e.retry
    /\ CopiesIn(e, mapEffects') < CopiesIn(e, mapEffects)

\* C19: on the map, a failed acquisition leaves an absent location absent and
\* shows the error panel with the retry control; a press on it puts the screen
\* in the loading state and starts one new acquisition; while the screen is in
\* the loading state an acquisition is pending, and the answer that ends the
\* retry's acquisition takes the screen to the map when it is a position and to
\* the error panel when it is a failure.
C19_RetryLeavesLoading ==
  [][screen = "map" =>
       /\ LocationFailure =>
            /\ map.location = Null => map'.location = Null
            /\ MapsScreenView' = "error"
       /\ event'.op = "retry" =>
            /\ MapsScreenView' = "loading"
            /\ BagCardinality(mapEffects') = BagCardinality(mapEffects) + 1
       /\ map'.loading => mapEffects' # EmptyBag
       /\ event' = Event("position", "ok") /\ RetryEffectDone =>
            MapsScreenView' = "map"]_vars

\* C20: when the provider rejects a call of sign-in, sign-up or verification, one
\* alert is raised whose text is the message of the rejection, or the first
\* message of its error list, or, when it carries neither, the fallback text of
\* the handler; the screen's loading becomes false, the active session and the
\* route stay as they were, and after a rejected sign-up pendingVerification is
\* false.
C20_AuthRejectionShown ==
  [][event'.op = "rejected" =>
       \A c \in authCalls \ authCalls' :
         LET err == Thrown[event'.arg]
             shown == alerts'[Len(alerts')].message
         IN /\ Len(alerts') = Len(alerts) + 1
            /\ err.message # "" => shown = err.message
            /\ err.message = "" /\ err.errors # <<>> => shown = err.errors[1].message
            /\ err.message = "" /\ err.errors = <<>> =>
                 shown = CASE c.fn = "onSignInPress" -> "Failed to sign in"
                           [] c.fn = "onSignUpPress" -> "Failed to sign up"
                           [] c.fn = "onVerifyPress" -> "Failed to verify"
            /\ c.fn = "onSignInPress" => ~signIn'.loading
            /\ c.fn # "onSignInPress" => ~signUp'.loading
            /\ clerk'.session = clerk.session
            /\ route' = route
            /\ c.fn = "onSignUpPress" => ~signUp'.pendingVerification]_vars

\* the executions of the effect that this step has started
StartedEffects ==
  {e \in BagToSet(mapEffects') :
     e.pc = "permission" /\ CopiesIn(e, mapEffects') > CopiesIn(e, mapEffects)}

\* C21: on the map an acquisition of the location is started only by the mount,
\* by a press on "Try Again" or by a press on the recenter button: after the
\* mount, a step starts an execution of the effect only when it is the press on
\* "Try Again", and then it starts one; no render starts one.
C21_AcquisitionOnlyExplicit ==
  [][screen = "map" /\ StartedEffects # {} =>
       /\ event'.op = "retry"
       /\ \A e \in StartedEffects : e.retry
       /\ BagCardinality(mapEffects') = BagCardinality(mapEffects) + 1]_vars

\* the calls that are waiting for getCurrentPositionAsync
PositionRequested ==
  \/ \E e \in BagToSet(mapEffects) : e.pc = "position"
  \/ mapRecenters # EmptyBag
  \/ \E g \in BagToSet(dashLocating) : g.pc = "position"

\* C22: the position of the device is requested only after a permission request
\* has returned "granted": while a call of the effect, of getCurrentLocation or
\* of centerOnUserLocation waits for a position, a grant has happened, and the
\* effect and getCurrentLocation reach their position request only in the step
\* that handles their own grant.
C22_PositionOnlyAfterGrant ==
  [][/\ PositionRequested' => history'.granted
     /\ \A e \in BagToSet(mapEffects') :
          e.pc = "position" /\ CopiesIn(e, mapEffects') > CopiesIn(e, mapEffects) =>
            event' = Event("permission", "granted")
     /\ \A g \in BagToSet(dashLocating') :
          g.pc = "position" /\ CopiesIn(g, dashLocating') > CopiesIn(g, dashLocating) =>
            event' = Event("permission", "granted")]_vars

\* C22 witness: a press on the recenter button has asked for a position, after
\* the grant of the mount
C22_Witness ==
  /\ mapRecenters # EmptyBag
  /\ history.granted
  /\ event.op = "centerOnUserLocation"

\* a press on a filter button of the map or on a category button of the dashboard
CategorySwitch ==
  \/ \E type \in MapTypes : handleTypeChange(type)
  \/ \E id \in CategoryIds : CategoryPress(id)

\* C23: while a request is outstanding and no dialog covers the screen, a
\* category switch can be taken; the switch that the last step took has set the
\* selected category and has issued a request of its own, whatever was
\* outstanding.
C23_InteractiveWhileLoading ==
  /\ Fetches # {} /\ CanTouch => ENABLED CategorySwitch
  /\ event.op \in {"handleTypeChange", "category"} /\ Location # Null =>
       /\ Category = event.arg
       /\ \E r \in Fetches : r.id = nextId - 1 /\ r.trigger = event.op

\* C24: whenever no request is in flight, places is empty or holds the response
\* to a request whose type parameter is the one of the selected category.
C24_PlacesOfSelectedCategory ==
  Fetches = {} /\ Places # <<>> => history.placesType = TokensOf(Category)

\* C25: after a press on Clear, places stays empty until the user triggers a new
\* query; no response to a request that was in flight at the press fills it.
C25_ClearedStaysEmpty ==
  history.cleared => dash.places = <<>>

\* C26: a successful response to a dashboard request that kept a non-blank search
\* text leaves in places the first 15 of all records of the response that match
\* the text, in the provider's order.
C26_FilterBeforeTruncation ==
  [][screen = "dash" /\ event'.op = "response" /\ event'.arg = "OK" =>
       \A r \in dashFetches \ dashFetches' :
         NonBlank(r.searchQuery) =>
           dash'.places = FirstN(Keeping(event'.results, r.searchQuery), DashLimit)]_vars

\* C26 witness: the 16th record of a response matches the search text and is on
\* display
C26_Witness ==
  /\ screen = "dash"
  /\ event.op = "response" /\ event.arg = "OK"
  /\ NonBlank(dash.searchQuery)
  /\ Len(event.results) > DashLimit
  /\ \E i \in DOMAIN dash.places : dash.places[i] = event.results[DashLimit + 1]

\* C27: on the profile screen the route changes, and the settings modal is
\* closed by a confirmed "Sign Out" or "Delete", only in the step in which the
\* provider's signOut or deletion resolves; the confirmation itself, with or
\* without a loaded user, does neither, and a rejection raises one alert and
\* leaves the modal and the route as they are.
C27_NavigateOnlyAfterSuccess ==
  [][screen = "profile" =>
       /\ route' # route => route' = "/sign-in" /\ event'.op = "resolved"
       /\ event'.op = "confirm" => route' = route /\ profile' = profile
       /\ event'.op = "rejected" =>
            /\ Len(alerts') = Len(alerts) + 1
            /\ profile' = profile
            /\ route' = route]_vars

\* the calls of signOut() and user.delete() that this step has made
Invoked ==
  {c \in BagToSet(profileCalls') : CopiesIn(c, profileCalls') > CopiesIn(c, profileCalls)}

\* C28: signOut() and user.delete() are called only by the step in which the
\* user chooses the destructive button of the matching confirmation dialog; the
\* press that opens a dialog and the choice of "Cancel" call neither and leave
\* the route, the session and settingsModalVisible as they are.
C28_InvokedOnlyAfterConfirmation ==
  [][screen = "profile" =>
       /\ \A c \in Invoked :
            /\ event'.op = "confirm"
            /\ alerts # <<>> /\ Head(alerts).title = event'.arg
            /\ c.fn = IF event'.arg = "Sign Out" THEN "signOut" ELSE "delete"
       /\ event'.op \in {"handleSignOut", "handleDeleteAccount", "cancel"} =>
            /\ Invoked = {}
            /\ route' = route
            /\ clerk' = clerk
            /\ profile' = profile
       /\ event'.op \in {"handleSignOut", "handleDeleteAccount"} =>
            /\ Len(alerts') = Len(alerts) + 1
            /\ alerts'[Len(alerts')].title \in Confirmations]_vars

\* C28 witness: the user has chosen "Delete" in the confirmation dialog and the
\* deletion is on its way to the provider; the modal is still open
C28_Witness ==
  /\ screen = "profile"
  /\ event = Event("confirm", "Delete Account")
  /\ BagIn([fn |-> "delete"], profileCalls)
  /\ profile.settingsModalVisible
  /\ route = "profile"

\* the calls that this step has put at the await pc
Reached(pc) == {c \in authCalls' \ authCalls : c.pc = pc}

\* C29: pendingVerification becomes true only in the step in which
\* prepareEmailAddressVerification resolves, which is awaited only after
\* signUp.create resolved; a verification attempt starts only while
\* pendingVerification is true; pendingVerification never returns to false; and
\* on the sign-up screen setActive is awaited only after the verification attempt
\* resolved, and the session and the route change only when setActive resolves.
C29_SignUpTwoPhase ==
  [][screen = "signUp" =>
       /\ ~signUp.pendingVerification /\ signUp'.pendingVerification =>
            /\ event' = Event("resolved", "prepare")
            /\ \E c \in authCalls \ authCalls' : c.fn = "onSignUpPress" /\ c.pc = "prepare"
       /\ Reached("prepare") # {} => event' = Event("resolved", "create")
       /\ Reached("attempt") # {} =>
            signUp.pendingVerification /\ event'.op = "onVerifyPress"
       /\ signUp.pendingVerification => signUp'.pendingVerification
       /\ Reached("setActive") # {} => event' = Event("resolved", "attempt")
       /\ route' # route \/ clerk'.session # clerk.session =>
            /\ event' = Event("resolved", "setActive")
            /\ route' = "/"
            /\ \E c \in authCalls \ authCalls' : c.fn = "onVerifyPress" /\ c.pc = "setActive"]_vars

\* C29 witness: a verification attempt has been rejected; the alert is on display
\* and the code-entry view is kept
C29_Witness ==
  /\ screen = "signUp"
  /\ event.op = "rejected"
  /\ signUp.pendingVerification /\ ~signUp.loading
  /\ alerts # <<>>
  /\ route = "signUp" /\ clerk.session = Null

\* C30: on the sign-in screen the route changes only to "/" and only in the step
\* in which setActive resolves for a session the provider created, setActive
\* being awaited only after signIn.create resolved; a press while the SDK is not
\* loaded starts no call and leaves loading false; at most one call of
\* onSignInPress is outstanding, and loading is false when none is.
C30_SignInOrder ==
  [][screen = "signIn" =>
       /\ route' # route =>
            /\ route' = "/"
            /\ event' = Event("resolved", "setActive")
            /\ clerk'.session # Null
       /\ Reached("setActive") # {} => event' = Event("resolved", "create")
       /\ event'.op = "onSignInPress" /\ ~clerk.isLoaded =>
            authCalls' = authCalls /\ ~signIn'.loading
       /\ Cardinality(authCalls') <= 1
       /\ authCalls' = {} => ~signIn'.loading]_vars

====
